---- MODULE Spec2Model ----
(***************************************************************************)
(* State-machine model of GrassEngine (the chunk streaming / LOD core of   *)
(* the grass renderer): the chunk store, the chunk group of the scene, the *)
(* throttled refresh (updateChunks), loadChunk / unloadChunk, the          *)
(* configuration reconciler (updateConfig) and the frame tick (animate).   *)
(*                                                                         *)
(* Number encoding.  World coordinates are integers.  lodBias,             *)
(* peripheralDensity and treeDensity are held in tenths (10 = 1.0),        *)
(* bladeCount in thousands.  Distances are compared through their squares, *)
(* so  sqrt(n) < d * bias  is  100 * n < (d * bias10)^2 .  An optional     *)
(* field that is absent (undefined) holds Undef.                           *)
(***************************************************************************)
EXTENDS Integers, Sequences, FiniteSets, Bags, TLC

(* ------------------------------ bounds --------------------------------- *)
\* number of updateConfig calls in one behaviour
MaxConfigUpdates == 1
\* number of direct calls of the public loadChunk in one behaviour
MaxLoadCalls == 1
\* number of dispose() calls in one behaviour
MaxDisposeCalls == 2
\* Engines constructed on the one container element.
MaxEngines == 2

(* ------------------------- program constants --------------------------- *)
CHUNK_SIZE == 30
UPDATE_THRESHOLD == 5
SENTINEL == 99999
Undef == -1

\* LOD_LEVELS: distance threshold and density (in tenths) per level;
\* levels 0 and 1 are the ones that may carry trees.
LOD_LEVELS ==
  << [distance |-> 45,  density |-> 10, segments |-> 4, castShadow |-> TRUE],
     [distance |-> 85,  density |-> 4,  segments |-> 2, castShadow |-> TRUE],
     [distance |-> 150, density |-> 1,  segments |-> 1, castShadow |-> FALSE] >>

BASE_MAX_DISTANCE == LOD_LEVELS[Len(LOD_LEVELS)].distance

SentinelPos == <<SENTINEL, SENTINEL, SENTINEL>>

(* ------------------------------ inputs --------------------------------- *)
\* Camera positions <<x, y, z>> the controls can put the camera at.
\* <<0,15,40>> is the constructor's position; the others lie 4 units from
\* it (below the movement threshold), 5 units from it (exactly the
\* threshold, and exactly 45 from the centre of cell (0,0)), above the
\* origin of the XZ plane, and at a negative half-cell position.
CamStart == <<0, 15, 40>>
CamPositions ==
  { CamStart, <<0, 15, 44>>, <<0, 15, 45>>, <<0, 15, 0>>, <<-15, 15, -15>> }

\* The camera positions used with the direct chunk calls.
CallCams == { CamStart, <<0, 15, 0>> }

\* The camera position the camera is panned to, from the start position,
\* while the configuration is being edited: the sentinel position.
ConfigCams == { <<SENTINEL, SENTINEL, SENTINEL>> }

\* The configuration the page starts with (GRASS_BIOMES['Golden Fields']).
\* Colours and angles are abstract tokens: only their identity matters.
InitialConfig ==
  [ bladeCount |-> 60, bladeWidth |-> 35, bladeHeight |-> 18,
    windSpeed |-> 12, windStrength |-> 8,
    baseColor |-> 1, tipColor |-> 1,
    sunElevation |-> 12, sunAzimuth |-> 315, sunIntensity |-> 60,
    sunColor |-> 1, ambientIntensity |-> 3,
    fogDensity |-> 20, fogColor |-> 1, groundColor |-> 1,
    lodBias |-> 10, lodDebug |-> 0, peripheralDensity |-> 10,
    treeDensity |-> 3, treeColor |-> 1, treeScale |-> 12 ]

ConfigFields == DOMAIN InitialConfig

\* The values the editing surface can give each field (a second value per
\* field; lodBias 0.5 and 1.2, densities down to their slider minimum,
\* optional fields also absent).  lodDebug: 0 = false, 1 = true.
FieldValues ==
  [ bladeCount |-> {60, 1, 0, -1}, bladeWidth |-> {35, 70}, bladeHeight |-> {18, 36},
    windSpeed |-> {12, 30}, windStrength |-> {8, 2},
    baseColor |-> {1, 2}, tipColor |-> {1, 2},
    sunElevation |-> {12, 45}, sunAzimuth |-> {315, 90},
    sunIntensity |-> {60, 30},
    sunColor |-> {1, 2}, ambientIntensity |-> {3, 6},
    fogDensity |-> {20, 5}, fogColor |-> {1, 2}, groundColor |-> {1, 2},
    lodBias |-> {10, 5, 12, 0}, lodDebug |-> {0, 1},
    peripheralDensity |-> {10, 1, 0, -5, Undef},
    treeDensity |-> {3, 0, Undef}, treeColor |-> {1, 2},
    treeScale |-> {12, 25} ]

\* Arguments of the direct loadChunk / unloadChunk calls: a cell of the
\* grid, a cell off the grid, and LOD indices inside and outside the table.
CallKeys == { <<0, 30>>, <<7, 7>> }
CallLods == { 1, 3 }

(* ------------------------------- state --------------------------------- *)
VARIABLES
  camera,         \* camera.position
  lastUpdatePos,  \* position of the last refresh that passed the threshold
  currentConfig,  \* this.currentConfig
  chunks,         \* the chunk store: key -> ChunkData
  chunkGroup,     \* bag of the meshes that are children of chunkGroup
  neededChunks,   \* the required set built by the last triggered refresh
  noiseSeed,      \* the permutation table noise2D drew at module load
  log,            \* what the last handler did, in order
  lastOp,         \* the last handler called and its arguments
  callCam,        \* camera position at the last two updateChunks calls
  preLoad,        \* resource counts before the last direct loadChunk
  nConfig,        \* updateConfig calls so far
  nLoad,          \* direct loadChunk calls so far
  resGen,         \* initResources calls so far
  disposedRes,    \* shared resource objects dispose() was called on
  uniforms,       \* configuration-derived uniforms of the three materials
  fog,            \* scene.fog: colour and density
  frameId,        \* this.frameId
  scheduled,      \* ids of the frame callbacks requested and not yet run
  resizeListener, \* the resize listener is registered on window
  disposed,       \* dispose() has been called
  nDispose,       \* dispose() calls so far
  container,      \* canvas elements that are children of the container,
                  \* each named by the number of the engine that made it
  engineNo,       \* number of the engine engineRef refers to
  stick,          \* the Joystick component: active, knob position, touchId
  joystickInput   \* arguments of the last setJoystickInput call

vars == << camera, lastUpdatePos, currentConfig, chunks, chunkGroup,
           neededChunks, noiseSeed, log, lastOp, callCam, preLoad,
           nConfig, nLoad, resGen, disposedRes, uniforms, fog, frameId,
           scheduled, resizeListener, disposed, nDispose, container,
           engineNo, stick, joystickInput >>

\* The variables of the page around the engine.
pageVars == << container, engineNo, stick, joystickInput >>

(* --------------------------- pure functions ---------------------------- *)
Abs(n) == IF n < 0 THEN -n ELSE n

\* DistanceLess comparing the squared distance with t, not with t * t.
DistanceLessUnsquared(a, b, t) ==
  /\ Abs(a[1] - b[1]) < t
  /\ Abs(a[2] - b[2]) < t
  /\ Abs(a[3] - b[3]) < t
  /\ (a[1] - b[1]) * (a[1] - b[1]) + (a[2] - b[2]) * (a[2] - b[2])
       + (a[3] - b[3]) * (a[3] - b[3]) < t

\* Vector3.distanceTo(b) < t, for integer positions.  The coordinate test
\* comes first so that the squares are only taken of small numbers.
DistanceLess(a, b, t) ==
  /\ Abs(a[1] - b[1]) < t
  /\ Abs(a[2] - b[2]) < t
  /\ Abs(a[3] - b[3]) < t
  /\ (a[1] - b[1]) * (a[1] - b[1]) + (a[2] - b[2]) * (a[2] - b[2])
       + (a[3] - b[3]) * (a[3] - b[3]) < t * t

getChunkKey(x, z) == <<x, z>>

\* const bias = this.currentConfig.lodBias || 1.0   (in tenths)
EffectiveBias(cfg) ==
  IF cfg.lodBias = 0 \/ cfg.lodBias = Undef THEN 10 ELSE cfg.lodBias

\* LODScan returning the last level, not -1, beyond every threshold.
RECURSIVE LODScanClamped(_, _, _)
LODScanClamped(i, distSq, bias) ==
  IF i > Len(LOD_LEVELS) THEN Len(LOD_LEVELS) - 1
  ELSE IF 100 * distSq < (LOD_LEVELS[i].distance * bias) * (LOD_LEVELS[i].distance * bias)
       THEN i - 1
       ELSE LODScanClamped(i + 1, distSq, bias)

\* LODScan numbering the levels from the far end.
RECURSIVE LODScanReversed(_, _, _)
LODScanReversed(i, distSq, bias) ==
  IF i > Len(LOD_LEVELS) THEN -1
  ELSE IF 100 * distSq < (LOD_LEVELS[i].distance * bias) * (LOD_LEVELS[i].distance * bias)
       THEN Len(LOD_LEVELS) - i
       ELSE LODScanReversed(i + 1, distSq, bias)

\* LODScan with  distance <= threshold * bias.
RECURSIVE LODScanInclusive(_, _, _)
LODScanInclusive(i, distSq, bias) ==
  IF i > Len(LOD_LEVELS) THEN -1
  ELSE IF 100 * distSq <= (LOD_LEVELS[i].distance * bias) * (LOD_LEVELS[i].distance * bias)
       THEN i - 1
       ELSE LODScanInclusive(i + 1, distSq, bias)

\* getLODLevel, on the square of the distance: the first level whose
\* threshold times bias is strictly above the distance, else -1.
RECURSIVE LODScan(_, _, _)
LODScan(i, distSq, bias) ==
  IF i > Len(LOD_LEVELS) THEN -1
  ELSE IF 100 * distSq < (LOD_LEVELS[i].distance * bias) * (LOD_LEVELS[i].distance * bias)
       THEN i - 1
       ELSE LODScan(i + 1, distSq, bias)

getLODLevel(distSq, cfg) == LODScan(1, distSq, EffectiveBias(cfg))

\* Math.round(v / CHUNK_SIZE) * CHUNK_SIZE for an integer v
\* (Math.round rounds halves up: floor(v / 30 + 0.5)).
RoundToChunk(v) == ((2 * v + CHUNK_SIZE) \div (2 * CHUNK_SIZE)) * CHUNK_SIZE

\* The two nested for loops of updateChunks: x runs from center - range in
\* steps of CHUNK_SIZE while x <= center + range.
ScanAxis(center, cfg) ==
  LET range == (BASE_MAX_DISTANCE * EffectiveBias(cfg)) \div 10
  IN  { center - range + CHUNK_SIZE * j : j \in 0..((2 * range) \div CHUNK_SIZE) }

\* DistSq measured to the camera's height, not to its z coordinate.
DistSqToHeight(x, z, cam) ==
  (x - cam[1]) * (x - cam[1]) + (z - cam[2]) * (z - cam[2])

\* The square of the XZ distance of the chunk centre (x, z) from the camera.
DistSq(x, z, cam) ==
  (x - cam[1]) * (x - cam[1]) + (z - cam[3]) * (z - cam[3])

\* neededChunks: key -> required LOD level, for the camera position cam.
BuildNeeded(cam, cfg) ==
  LET xs == ScanAxis(RoundToChunk(cam[1]), cfg)
      zs == ScanAxis(RoundToChunk(cam[3]), cfg)
      keys == { k \in xs \X zs : getLODLevel(DistSq(k[1], k[2], cam), cfg) # -1 }
  IN  [ k \in keys |-> getLODLevel(DistSq(k[1], k[2], cam), cfg) ]

\* BladeCount with the peripheral multiplier applied at every LOD level.
BladeCountPeripheralAll(lodIndex, cfg) ==
  LET peripheralMult == IF cfg.peripheralDensity = Undef THEN 10
                        ELSE cfg.peripheralDensity
      lodDensity == LOD_LEVELS[lodIndex + 1].density
  IN  (cfg.bladeCount * 225 * lodDensity * peripheralMult) \div 1000

\* getBladeDensity() * chunkArea * effectiveDensity, floored.
\* bladeCount is in thousands, densities in tenths:
\*   (bc * 1000 / 40000) * 900 * (d / 10) * (p / 10) = bc * 225 * d * p / 1000
BladeCount(lodIndex, cfg) ==
  LET peripheralMult == IF cfg.peripheralDensity = Undef THEN 10
                        ELSE cfg.peripheralDensity
      lodDensity == LOD_LEVELS[lodIndex + 1].density
      effective == IF lodIndex = 0 THEN lodDensity * 10
                   ELSE lodDensity * peripheralMult
  IN  (cfg.bladeCount * 225 * effective) \div 1000

\* The per-cell pseudo random value of the tree sub-grid, in tenths
\* (seed - floor(seed) of the sine hash): a fixed function of the cell.
TreeRand(cellX, cellZ) == (cellX * 13 + cellZ * 7) % 10

\* noise2D at a tree position, in tenths of [-1, 1]: a function of the
\* position and of the permutation table drawn once per process.
ForestNoise(wx, wz, seed) == ((wx + 3 * wz + 7 * seed) % 21) - 10

\* TreePlacements without the test of the LOD level.
TreePlacementsAnyLod(x, z, lodIndex, cfg, seed) ==
  LET densityProb == IF cfg.treeDensity = Undef THEN 0 ELSE cfg.treeDensity
      gridCellSize == 6
      cells == (CHUNK_SIZE + gridCellSize - 1) \div gridCellSize
      startOffset == -(CHUNK_SIZE \div 2)
  IN  IF 10 * densityProb > 1
      THEN { c \in (0..(cells - 1)) \X (0..(cells - 1)) :
               LET cellX == x + startOffset + c[1] * gridCellSize
                   cellZ == z + startOffset + c[2] * gridCellSize
                   rand == TreeRand(cellX, cellZ)
               IN  /\ 5 * ForestNoise(cellX, cellZ, seed) + 50 < 15 * densityProb
                   /\ rand < 8 }
      ELSE {}

\* The sub-grid cells of chunk (x, z) that receive a tree.
TreePlacements(x, z, lodIndex, cfg, seed) ==
  LET densityProb == IF cfg.treeDensity = Undef THEN 0 ELSE cfg.treeDensity
      gridCellSize == 6
      cells == (CHUNK_SIZE + gridCellSize - 1) \div gridCellSize
      startOffset == -(CHUNK_SIZE \div 2)
  IN  IF 10 * densityProb > 1 /\ lodIndex <= 1
      THEN { c \in (0..(cells - 1)) \X (0..(cells - 1)) :
               LET cellX == x + startOffset + c[1] * gridCellSize
                   cellZ == z + startOffset + c[2] * gridCellSize
                   rand == TreeRand(cellX, cellZ)
               IN  /\ 5 * ForestNoise(cellX, cellZ, seed) + 50 < 15 * densityProb
                   /\ rand < 8 }
      ELSE {}

\* Math.cos(seed) of the sine hash of a cell, in tenths of [-1, 1]: a fixed
\* function of the cell.
CosSeed(cellX, cellZ) == ((cellX * 3 + cellZ * 11) % 21) - 10

\* TreeInstance with the scale taken from bladeHeight instead of treeScale.
TreeInstanceBladeScale(x, z, c, cfg) ==
  LET gridCellSize == 6
      startOffset == -(CHUNK_SIZE \div 2)
      cellX == x + startOffset + c[1] * gridCellSize
      cellZ == z + startOffset + c[2] * gridCellSize
      rand == TreeRand(cellX, cellZ)
  IN  [ wx |-> 100 * cellX + (2 * rand - 10) * 24,
        wz |-> 100 * cellZ + CosSeed(cellX, cellZ) * 24,
        s |-> cfg.bladeHeight * (80 + 4 * rand),
        yaw |-> rand ]

\* The transform pushed for the accepted sub-grid cell c of chunk (x, z):
\* position wx, wz in hundredths (the cell corner plus the jitter, which is
\* (rand * 2 - 1) * 2.4 in x and cos(seed) * 2.4 in z), uniform scale
\* treeScale * (0.8 + rand * 0.4) in thousandths, yaw rand * 2 pi in tenths
\* of a turn.
TreeInstance(x, z, c, cfg) ==
  LET gridCellSize == 6
      startOffset == -(CHUNK_SIZE \div 2)
      cellX == x + startOffset + c[1] * gridCellSize
      cellZ == z + startOffset + c[2] * gridCellSize
      rand == TreeRand(cellX, cellZ)
      treeScale == IF cfg.treeScale = Undef \/ cfg.treeScale = 0 THEN 10
                   ELSE cfg.treeScale
  IN  [ wx |-> 100 * cellX + (2 * rand - 10) * 24,
        wz |-> 100 * cellZ + CosSeed(cellX, cellZ) * 24,
        s |-> treeScale * (80 + 4 * rand),
        yaw |-> rand ]

\* The meshes a chunk owns that are children of chunkGroup: the ground
\* mesh, the grass mesh when it has instances (an empty grass mesh is never
\* added to the group), and the trunk and foliage meshes of a tree store.
MeshSet(key, c) ==
  { <<key, "ground">> }
    \cup (IF c.blades > 0 THEN { <<key, "grass">> } ELSE {})
    \cup (IF c.trees > 0 THEN { <<key, "trunk">>, <<key, "foliage">> } ELSE {})

\* The shared resources initResources builds anew on every call, and the
\* ones the constructor builds once.
LodSlot(lodIndex) == << "lodGeometry0", "lodGeometry1", "lodGeometry2" >>[lodIndex + 1]

RebuiltSlots ==
  { LodSlot(i - 1) : i \in DOMAIN LOD_LEVELS }
    \cup { "grassMaterial", "groundMaterial", "treeTrunkGeo", "treeFoliageGeo",
           "treeTrunkMat", "treeFoliageMat" }

OnceSlots ==
  { "bladeTexture", "leafAlbedoMap", "leafAlphaMap", "leafNormalMap",
    "pollenGeometry", "pollenMaterial", "sunGeometry", "sunMaterial" }

\* The shared resource objects the engine's fields refer to after gen calls
\* of initResources: an object is its slot and the call that built it.
Held(gen) == (RebuiltSlots \X {gen}) \cup (OnceSlots \X {0})

\* The geometry of a grass mesh built per chunk.
ChunkGeometry == << "chunkGeometry", 0 >>

\* ChunkData with the computed blade count taken as the instance count
\* whatever its sign.
ChunkDataUnclamped(x, z, lodIndex, cfg, seed, gen) ==
  LET bladeCount == BladeCount(lodIndex, cfg)
      placements == TreePlacements(x, z, lodIndex, cfg, seed)
  IN  [ lodLevel |-> lodIndex,
        blades |-> bladeCount,
        offsets |-> IF bladeCount > 0 THEN 3 * bladeCount ELSE 0,
        scales |-> IF bladeCount > 0 THEN bladeCount ELSE 0,
        rotations |-> IF bladeCount > 0 THEN bladeCount ELSE 0,
        grassGeo |-> IF bladeCount > 0 THEN ChunkGeometry
                     ELSE << LodSlot(lodIndex), gen >>,
        trees |-> Cardinality(placements),
        treeSet |-> { TreeInstance(x, z, c, cfg) : c \in placements },
        trunkInstances |-> Cardinality(placements),
        foliageInstances |-> Cardinality(placements),
        debug |-> (cfg.lodDebug = 1) ]

\* The ChunkData record loadChunk stores for (x, z) at a valid lodIndex.
\* offsets, scales and rotations are the lengths of the three instance
\* arrays, treeSet the transforms pushed for the accepted tree placements.
\* grassGeo is the geometry of the grass mesh: a geometry of the chunk's own
\* when there are blades, else the LOD template geometry itself.
ChunkData(x, z, lodIndex, cfg, seed, gen) ==
  LET bladeCount == BladeCount(lodIndex, cfg)
      placements == TreePlacements(x, z, lodIndex, cfg, seed)
  IN  [ lodLevel |-> lodIndex,
        blades |-> IF bladeCount > 0 THEN bladeCount ELSE 0,
        offsets |-> IF bladeCount > 0 THEN 3 * bladeCount ELSE 0,
        scales |-> IF bladeCount > 0 THEN bladeCount ELSE 0,
        rotations |-> IF bladeCount > 0 THEN bladeCount ELSE 0,
        grassGeo |-> IF bladeCount > 0 THEN ChunkGeometry
                     ELSE << LodSlot(lodIndex), gen >>,
        trees |-> Cardinality(placements),
        treeSet |-> { TreeInstance(x, z, c, cfg) : c \in placements },
        trunkInstances |-> Cardinality(placements),
        foliageInstances |-> Cardinality(placements),
        debug |-> (cfg.lodDebug = 1) ]

\* loadChunk(x, z, lodIndex): st is [chunks, group, gen, freed], the store,
\* the chunk group, the number of initResources calls and the shared
\* resource objects dispose() was called on.  The resource test of line 602
\* never fails once the constructor has run: the fields are never cleared.
loadChunk(st, x, z, lodIndex, cfg, seed) ==
  IF lodIndex < 0 \/ lodIndex >= Len(LOD_LEVELS) THEN st
  ELSE
    LET key == getChunkKey(x, z)
        data == ChunkData(x, z, lodIndex, cfg, seed, st.gen)
    IN  [ st EXCEPT !.chunks = (key :> data) @@ st.chunks,
                    !.group = st.group (+) SetToBag(MeshSet(key, data)) ]

\* What chunk.grass.geometry.dispose() of unloadChunk disposes among the
\* shared resources: nothing when the geometry is the chunk's own.
GrassGeometryDisposed(c) ==
  IF c.grassGeo = ChunkGeometry THEN {} ELSE { c.grassGeo }

\* unloadChunk(key)
unloadChunk(st, key) ==
  IF key \in DOMAIN st.chunks
  THEN [ st EXCEPT
           !.chunks = [ k \in (DOMAIN st.chunks) \ {key} |-> st.chunks[k] ],
           !.group = st.group (-) SetToBag(MeshSet(key, st.chunks[key])),
           !.freed = st.freed \cup GrassGeometryDisposed(st.chunks[key]) ]
  ELSE st

\* keys.forEach(key => unloadChunk(key)) for keys of the store: the calls
\* act on different keys, so their effects are taken together.
UnloadEach(st, keys) ==
  LET present == keys \cap DOMAIN st.chunks
  IN  [ st EXCEPT
          !.chunks = [ k \in (DOMAIN st.chunks) \ present |-> st.chunks[k] ],
          !.group = st.group (-)
                      SetToBag(UNION { MeshSet(k, st.chunks[k]) : k \in present }),
          !.freed = st.freed \cup
                      UNION { GrassGeometryDisposed(st.chunks[k]) : k \in present } ]

\* for (const [key, data] of neededChunks)
\*   if (!this.chunks.has(key)) this.loadChunk(data.x, data.z, data.lod)
\* The calls act on different keys that are not in the store, so their
\* effects are taken together; every required level is a valid index.
LoadEach(st, needed, cfg, seed) ==
  LET missing == { k \in DOMAIN needed :
                     /\ k \notin DOMAIN st.chunks
                     /\ ~(needed[k] < 0 \/ needed[k] >= Len(LOD_LEVELS)) }
      data == [ k \in missing |->
                  ChunkData(k[1], k[2], needed[k], cfg, seed, st.gen) ]
  IN  [ st EXCEPT
          !.chunks = [ k \in (DOMAIN st.chunks) \cup missing |->
                         IF k \in missing THEN data[k] ELSE st.chunks[k] ],
          !.group = st.group (+)
                      SetToBag(UNION { MeshSet(k, data[k]) : k \in missing }) ]

Event(name, keys) == [ ev |-> name, keys |-> keys ]

\* StaleChunks without the comparison of the loaded and required level.
StaleChunksKeepLevel(loaded, needed) ==
  { k \in DOMAIN loaded : k \notin DOMAIN needed }

\* The chunks updateChunks unloads: loaded but not required, or loaded at a
\* level other than the required one.
StaleChunks(loaded, needed) ==
  { k \in DOMAIN loaded :
      \/ k \notin DOMAIN needed
      \/ needed[k] # loaded[k].lodLevel }

\* updateChunks(): the result is the new store, group, marker, required set
\* and the events it produced.
updateChunks(st, last, needed0, cam, cfg, seed) ==
  IF DistanceLess(last, cam, UPDATE_THRESHOLD)
  THEN [ chunks |-> st.chunks, group |-> st.group, freed |-> st.freed,
         last |-> last, needed |-> needed0,
         events |-> << Event("throttled", {}) >> ]
  ELSE
    LET needed == BuildNeeded(cam, cfg)
        s1 == UnloadEach(st, StaleChunks(st.chunks, needed))
        s2 == LoadEach(s1, needed, cfg, seed)
        unloaded == (DOMAIN st.chunks) \ (DOMAIN s1.chunks)
        loaded == (DOMAIN s2.chunks) \ (DOMAIN s1.chunks)
    IN  [ chunks |-> s2.chunks, group |-> s2.group, freed |-> s2.freed,
          last |-> cam, needed |-> needed,
          events |-> << Event("refresh", {}) >>
                     \o (IF unloaded = {} THEN << >>
                         ELSE << Event("unload", unloaded) >>)
                     \o (IF loaded = {} THEN << >>
                         ELSE << Event("load", loaded) >>) ]

(* ------------------------- uniforms and fog ---------------------------- *)
\* The configuration-derived uniforms initResources gives the grass material.
GrassUniforms(config) ==
  [ uWindSpeed |-> config.windSpeed, uWindStrength |-> config.windStrength,
    uBaseColor |-> config.baseColor, uTipColor |-> config.tipColor,
    uSunColor |-> config.sunColor, uSunIntensity |-> config.sunIntensity,
    uAmbientIntensity |-> config.ambientIntensity,
    fogColor |-> config.fogColor, fogDensity |-> config.fogDensity,
    uCameraPosition |-> << 0, 0, 0 >> ]

\* The configuration-derived uniforms initResources gives the tree foliage
\* material.
FoliageUniforms(config) ==
  [ uWindSpeed |-> config.windSpeed, uColor |-> config.treeColor,
    uSunColor |-> config.sunColor, uSunIntensity |-> config.sunIntensity,
    uAmbientIntensity |-> config.ambientIntensity,
    fogColor |-> config.fogColor, fogDensity |-> config.fogDensity,
    uCameraPosition |-> << 0, 0, 0 >> ]

\* The configuration-derived uniforms initParticles gives the pollen
\* material.
PollenUniforms(config) ==
  [ uWindSpeed |-> config.windSpeed,
    uSunColor |-> config.sunColor, uSunIntensity |-> config.sunIntensity,
    fogColor |-> config.fogColor, fogDensity |-> config.fogDensity,
    uCameraPosition |-> << 0, 0, 0 >> ]

\* updateSun(config), on the uniforms: the sun colour and intensity of the
\* grass material and the sun colour of the foliage material.
updateSun(u, config) ==
  [ u EXCEPT !.grass.uSunColor = config.sunColor,
             !.grass.uSunIntensity = config.sunIntensity,
             !.foliage.uSunColor = config.sunColor ]

\* updateChunks ends with updateSun(this.currentConfig) when it was not
\* throttled.
SunAfterRefresh(u, events, config) ==
  IF \E i \in DOMAIN events : events[i].ev = "refresh"
  THEN updateSun(u, config) ELSE u

\* The patch path of updateConfig, on the uniforms.
PatchUniforms(u, prev, config) ==
  updateSun(
    [ u EXCEPT
        !.grass.uWindSpeed = config.windSpeed,
        !.grass.uWindStrength = config.windStrength,
        !.grass.uBaseColor = config.baseColor,
        !.grass.uTipColor = config.tipColor,
        !.grass.uAmbientIntensity = config.ambientIntensity,
        !.grass.fogColor = config.fogColor,
        !.grass.fogDensity = config.fogDensity,
        !.foliage.uWindSpeed = config.windSpeed,
        !.foliage.uColor = IF prev.treeColor # config.treeColor
                           THEN config.treeColor ELSE @,
        !.foliage.uSunIntensity = config.sunIntensity,
        !.foliage.uSunColor = config.sunColor,
        !.foliage.fogColor = config.fogColor,
        !.foliage.fogDensity = config.fogDensity,
        !.pollen.uWindSpeed = config.windSpeed,
        !.pollen.fogColor = config.fogColor,
        !.pollen.fogDensity = config.fogDensity,
        !.pollen.uSunIntensity = config.sunIntensity,
        !.pollen.uSunColor = config.sunColor ],
    config)

\* new THREE.FogExp2(config.fogColor, config.fogDensity), and the fog
\* assignment of the patch path.
FogOf(config) == [ color |-> config.fogColor, density |-> config.fogDensity ]

\* animate() copies the camera position into uCameraPosition of the three
\* materials (uTime, the elapsed time of the clock, is not kept).
PushFrameUniforms(u, camPos) ==
  [ u EXCEPT !.grass.uCameraPosition = camPos,
             !.foliage.uCameraPosition = camPos,
             !.pollen.uCameraPosition = camPos ]

\* FrameSteps with the render ahead of the chunk refresh.
FrameStepsRenderFirst(refreshEvents) ==
  << Event("requestAnimationFrame", {}), Event("uniforms", {}),
     Event("render", {}) >>
    \o refreshEvents \o << Event("controls", {}) >>

\* What one animate() call does, in order: requestAnimationFrame, the
\* uniform pushes, updateChunks (whose events are refreshEvents),
\* controls.update(), renderer.render().
FrameSteps(refreshEvents) ==
  << Event("requestAnimationFrame", {}), Event("uniforms", {}) >>
    \o refreshEvents
    \o << Event("controls", {}), Event("render", {}) >>

\* requestAnimationFrame(callback), called from the callback with id `id`:
\* at most one callback is pending at a time, so the model names the pending
\* callback by one id and hands the id of the callback that has just run
\* out again.
NextFrameId(id) == id

(* ----------------------- Joystick: number arithmetic -------------------- *)
\* The numbers updatePosition computes with are IEEE 754 binary64 values.
\* A value is kept as sign, significand and exponent: the significand m is
\* a natural number of SignificandBits binary digits and the value is
\* sign * m * 2^e. Zero has the empty significand. Every operation rounds
\* to nearest, ties to even. A significand is too wide for one integer of
\* the checker, so a natural number is kept as its digits in base Base,
\* least significant first and without leading zero digits.
SignificandBits == 53

RADIUS == 50

LimbBits == 14

Base == 2^LimbBits

FZero == [ sign |-> 1, m |-> << >>, e |-> 0 ]

Zeros(n) == [ i \in 1..n |-> 0 ]

\* The number of binary digits of the integer n >= 0.
RECURSIVE BitLen(_)
BitLen(n) == IF n = 0 THEN 0 ELSE 1 + BitLen(n \div 2)

\* The number of binary digits of the natural number a.
BigBitLen(a) ==
  IF a = << >> THEN 0 ELSE (Len(a) - 1) * LimbBits + BitLen(a[Len(a)])

\* a without its leading zero digits.
RECURSIVE Trim(_)
Trim(a) ==
  IF a = << >> \/ a[Len(a)] # 0 THEN a ELSE Trim(SubSeq(a, 1, Len(a) - 1))

\* a * n + carry for integers n, carry >= 0.
RECURSIVE BigTimes(_, _, _)
BigTimes(a, n, carry) ==
  IF a = << >>
    THEN IF carry = 0 THEN << >>
         ELSE << carry % Base >> \o BigTimes(<< >>, n, carry \div Base)
    ELSE LET t == a[1] * n + carry
         IN  << t % Base >> \o BigTimes(Tail(a), n, t \div Base)

\* Quotient (leading zero digits kept) and remainder of (rem * Base^Len(a)
\* + a) by the integer d > rem.
RECURSIVE BigDivide(_, _, _)
BigDivide(a, d, rem) ==
  IF a = << >> THEN [ q |-> << >>, rem |-> rem ]
  ELSE LET t == rem * Base + a[Len(a)]
           r == BigDivide(SubSeq(a, 1, Len(a) - 1), d, t % d)
       IN  [ q |-> Append(r.q, t \div d), rem |-> r.rem ]

\* a * 2^k.
ShiftLeft(a, k) ==
  IF a = << >> THEN << >>
  ELSE Zeros(k \div LimbBits) \o BigTimes(a, 2^(k % LimbBits), 0)

\* a \div 2^k, and whether a nonzero digit was shifted out.
ShiftRight(a, k) ==
  LET whole == k \div LimbBits
      r == BigDivide(SubSeq(a, whole + 1, Len(a)), 2^(k % LimbBits), 0)
  IN  [ q |-> Trim(r.q),
        lost |-> r.rem # 0 \/ \E i \in 1..whole : a[i] # 0 ]

\* The binary64 value nearest to sign * (n + f) * 2^e, where n is a
\* natural number and 0 <= f < 1 is nonzero iff sticky.
RoundBits(sign, n, sticky, e) ==
  IF n = << >> THEN FZero
  ELSE IF BigBitLen(n) <= SignificandBits
    THEN [ sign |-> sign, m |-> ShiftLeft(n, SignificandBits - BigBitLen(n)),
           e |-> e - (SignificandBits - BigBitLen(n)) ]
    ELSE LET sh == BigBitLen(n) - SignificandBits
             g == ShiftRight(n, sh - 1)
             h == ShiftRight(g.q, 1)
             up == h.lost /\ (g.lost \/ sticky \/ h.q[1] % 2 = 1)
             r == IF up THEN BigTimes(h.q, 1, 1) ELSE h.q
         IN  IF BigBitLen(r) > SignificandBits
               THEN [ sign |-> sign, m |-> ShiftRight(r, 1).q, e |-> e + sh + 1 ]
               ELSE [ sign |-> sign, m |-> r, e |-> e + sh ]

\* The integer n as a binary64 value (exact for the integers used here).
FromInt(n) ==
  RoundBits(IF n < 0 THEN -1 ELSE 1, BigTimes(<< >>, 1, Abs(n)), FALSE, 0)

\* a / d for a binary64 value a and an integer d > 0 (itself an exact
\* binary64 value): the exact quotient, rounded once.
FDivInt(a, d) ==
  IF a.m = << >> THEN FZero
  ELSE LET extra == BitLen(d) + 2
           r == BigDivide(ShiftLeft(a.m, extra), d, 0)
       IN  RoundBits(a.sign, Trim(r.q), r.rem # 0, a.e - extra)

\* n * a for an integer n (an exact binary64 value) and a binary64 value a:
\* the exact product, rounded once.
FMulInt(n, a) ==
  IF n = 0 \/ a.m = << >> THEN FZero
  ELSE RoundBits(IF n < 0 THEN -a.sign ELSE a.sign,
                 BigTimes(a.m, Abs(n), 0), FALSE, a.e)

\* Math.sqrt(n) for a perfect square n with root at most bound.
IntSqrt(n, bound) == CHOOSE r \in 0..bound : r * r = n

\* updatePosition(clientX, clientY) for a pointer dx to the right of and dy
\* below the centre of the stick: the knob position set, and the vector
\* handed to onMove.
updatePosition(dx, dy) ==
  LET d2 == dx * dx + dy * dy
      clamped == d2 > RADIUS * RADIUS
      distance == IntSqrt(d2, Abs(dx) + Abs(dy))
      ratio == FDivInt(FromInt(RADIUS), distance)
      finalX == IF clamped THEN FMulInt(dx, ratio) ELSE FromInt(dx)
      finalY == IF clamped THEN FMulInt(dy, ratio) ELSE FromInt(dy)
  IN  [ position |-> << finalX, finalY >>,
        move |-> << FDivInt(finalX, RADIUS), FDivInt(finalY, RADIUS) >> ]

\* Where the pointer is, relative to the centre of the stick, in pixels:
\* inside the radius, on it, and beyond it along an axis and diagonally.
\* Beyond the radius the distance from the centre is a whole number.
PointerOffsets ==
  { << 0, 0 >>, << 20, -30 >>, << 30, 40 >>, << 50, 0 >>, << 78, 0 >>,
    << 0, -70 >>, << -300, 400 >>, << -75, 0 >> }

\* The identifiers of the touches on the screen.
TouchIds == {0, 1}

(* ------------------------------ actions -------------------------------- *)
\* The store, the chunk group and the shared resources, as the chunk
\* operations take them.
Engine ==
  [ chunks |-> chunks, group |-> chunkGroup, gen |-> resGen,
    freed |-> disposedRes ]

NoKey == <<0, 0>>
\* touchId.current = null, and no setJoystickInput call made yet.
NoTouch == -1
NoInput == [ called |-> FALSE, x |-> FZero, y |-> FZero ]
Op(name, key, lod) == [ op |-> name, key |-> key, lod |-> lod ]

\* The permutation tables the model distinguishes.
NoiseSeeds == {0, 1}

\* preLoad when the last handler was not a direct loadChunk (step 0) nor an
\* unloadChunk right after one (step 1).
NoPreLoad == [ key |-> NoKey, lod |-> 0, nChunks |-> 0, nMeshes |-> 0, step |-> 2 ]

\* What the constructor builds for config: resources built once, and the
\* first animate() call made (its refresh starts from the sentinel marker
\* and an empty store, with the camera at (0, 15, 40)).
Constructed(config, seed) ==
  LET r == updateChunks([chunks |-> << >>, group |-> EmptyBag,
                         gen |-> 1, freed |-> {}], SentinelPos,
                        << >>, CamStart, config, seed)
  IN  [ chunks |-> r.chunks, group |-> r.group, last |-> r.last,
        needed |-> r.needed, events |-> FrameSteps(r.events),
        freed |-> r.freed,
        uniforms |-> SunAfterRefresh(
                       PushFrameUniforms(
                         updateSun([ grass |-> GrassUniforms(config),
                                     foliage |-> FoliageUniforms(config),
                                     pollen |-> PollenUniforms(config) ],
                                   config),
                         CamStart),
                       r.events, config) ]

\* The Joystick component before any touch: not active, knob centred, no
\* touch tracked, no mouse listener on window.
StickAtRest ==
  [ active |-> FALSE, position |-> << FZero, FZero >>, touchId |-> NoTouch,
    listening |-> FALSE ]

\* The state after the page has mounted: the engine constructed on the
\* container with the starting configuration, its canvas appended.
Init ==
  /\ noiseSeed \in NoiseSeeds
  /\ camera = CamStart
  /\ currentConfig = InitialConfig
  /\ \E r \in { Constructed(InitialConfig, noiseSeed) } :
         /\ chunks = r.chunks
         /\ chunkGroup = r.group
         /\ lastUpdatePos = r.last
         /\ neededChunks = r.needed
         /\ log = r.events
         /\ disposedRes = r.freed
         /\ uniforms = r.uniforms
  /\ resGen = 1
  /\ fog = FogOf(InitialConfig)
  /\ frameId = 1
  /\ scheduled = {1}
  /\ resizeListener = TRUE
  /\ disposed = FALSE
  /\ nDispose = 0
  /\ lastOp = Op("constructor", NoKey, 0)
  /\ callCam = << SentinelPos, CamStart >>
  /\ preLoad = NoPreLoad
  /\ nConfig = 0
  /\ nLoad = 0
  /\ container = {1}
  /\ engineNo = 1
  /\ stick = StickAtRest
  /\ joystickInput = NoInput

\* new GrassEngine(container, config) after the previous engine was
\* disposed and engineRef cleared: the constructor runs again on the same
\* container element, with the configuration the page holds, and appends
\* the canvas of its renderer.  The noise table of the module is kept.
Construct ==
  /\ disposed
  /\ engineNo < MaxEngines
  /\ engineNo' = engineNo + 1
  /\ container' = container \cup {engineNo'}
  /\ camera' = CamStart
  /\ \E r \in { Constructed(currentConfig, noiseSeed) } :
         /\ chunks' = r.chunks
         /\ chunkGroup' = r.group
         /\ lastUpdatePos' = r.last
         /\ neededChunks' = r.needed
         /\ log' = r.events
         /\ disposedRes' = r.freed
         /\ uniforms' = r.uniforms
  /\ resGen' = 1
  /\ fog' = FogOf(currentConfig)
  /\ frameId' = 1
  /\ scheduled' = scheduled \cup {1}
  /\ resizeListener' = TRUE
  /\ disposed' = FALSE
  /\ lastOp' = Op("constructor", NoKey, 0)
  /\ callCam' = << SentinelPos, CamStart >>
  /\ preLoad' = NoPreLoad
  /\ UNCHANGED << currentConfig, noiseSeed, nConfig, nLoad, nDispose, stick,
                  joystickInput >>

\* animate(): refresh the chunks for the current camera position, then
\* controls.update() moves the camera (or leaves it), then render.
Animate(cams) ==
  /\ frameId \in scheduled
  /\ frameId' = NextFrameId(frameId)
  /\ scheduled' = (scheduled \ {frameId}) \cup {frameId'}
  /\ \E r \in { updateChunks(Engine, lastUpdatePos, neededChunks, camera,
                             currentConfig, noiseSeed) } :
       /\ chunks' = r.chunks
       /\ chunkGroup' = r.group
       /\ lastUpdatePos' = r.last
       /\ neededChunks' = r.needed
       /\ log' = FrameSteps(r.events)
       /\ disposedRes' = r.freed
       /\ uniforms' = SunAfterRefresh(PushFrameUniforms(uniforms, camera),
                                      r.events, currentConfig)
  /\ callCam' = << callCam[2], camera >>
  /\ lastOp' = Op("animate", NoKey, 0)
  /\ \E pos \in cams : camera' = pos
  /\ preLoad' = NoPreLoad
  /\ UNCHANGED << currentConfig, noiseSeed, nConfig, nLoad, resGen, fog,
                  resizeListener, disposed, nDispose >>
  /\ UNCHANGED pageVars

\* The configurations updateConfig is called with: the current one again
\* (the page's effect after mount), one field changed, or a structural and
\* a fog field changed together (a biome switch).
ConfigInputs(cur) ==
  {cur}
    \cup { [cur EXCEPT ![e[1]] = e[2]] :
             e \in UNION { {f} \X FieldValues[f] : f \in ConfigFields } }
    \cup { [cur EXCEPT !.bladeHeight = 36, !.fogColor = 2] }

\* NeedsRebuild also testing treeColor.
NeedsRebuildWithTreeColor(prev, config) ==
  \/ prev.bladeWidth # config.bladeWidth
  \/ prev.bladeHeight # config.bladeHeight
  \/ prev.bladeCount # config.bladeCount
  \/ prev.lodBias # config.lodBias
  \/ prev.lodDebug # config.lodDebug
  \/ prev.peripheralDensity # config.peripheralDensity
  \/ prev.treeDensity # config.treeDensity
  \/ prev.treeScale # config.treeScale
  \/ prev.treeColor # config.treeColor

\* NeedsRebuild not testing treeScale.
NeedsRebuildWithoutTreeScale(prev, config) ==
  \/ prev.bladeWidth # config.bladeWidth
  \/ prev.bladeHeight # config.bladeHeight
  \/ prev.bladeCount # config.bladeCount
  \/ prev.lodBias # config.lodBias
  \/ prev.lodDebug # config.lodDebug
  \/ prev.peripheralDensity # config.peripheralDensity
  \/ prev.treeDensity # config.treeDensity

\* The rebuild test of updateConfig.
NeedsRebuild(prev, config) ==
  LET needsGeoRebuild == prev.bladeWidth # config.bladeWidth
                           \/ prev.bladeHeight # config.bladeHeight
      needsDensityRebuild == prev.bladeCount # config.bladeCount
      needsLodRebuild == prev.lodBias # config.lodBias
      needsDebugRebuild == prev.lodDebug # config.lodDebug
      needsPeripheralRebuild == prev.peripheralDensity # config.peripheralDensity
      needsTreeRebuild == prev.treeDensity # config.treeDensity
                            \/ prev.treeScale # config.treeScale
  IN  needsGeoRebuild \/ needsDensityRebuild \/ needsLodRebuild
        \/ needsDebugRebuild \/ needsPeripheralRebuild \/ needsTreeRebuild

\* The marker left where it was.
MarkerKept(last) == last

\* this.lastUpdatePos.set(99999, 99999, 99999)
MarkerAfterRebuild(last) == SentinelPos

\* initResources building new resources without disposing the held ones.
initResourcesKeepOld(st) == [ st EXCEPT !.gen = st.gen + 1 ]

\* initResources(config), on the shared resources: the geometries and
\* materials held so far are disposed and new ones are built.
initResources(st) ==
  [ st EXCEPT !.gen = st.gen + 1,
              !.freed = st.freed \cup (RebuiltSlots \X {st.gen}) ]

\* RebuildPath without the unload of every chunk and the clear of the store.
RebuildPathKeepChunks(st, last, needed0, cam, config, seed) ==
  LET s0 == initResources(st)
      r == updateChunks(s0, MarkerAfterRebuild(last), needed0, cam, config, seed)
  IN  [ chunks |-> r.chunks, group |-> r.group, gen |-> s0.gen,
        freed |-> r.freed, last |-> r.last, needed |-> r.needed,
        events |-> << Event("initResources", {}), Event("reset", {}) >>
                   \o r.events ]

\* The rebuild path of updateConfig(config): initResources, unload every
\* chunk, clear the store, reset the marker, updateChunks.
RebuildPath(st, last, needed0, cam, config, seed) ==
  LET s0 == initResources(st)
      s1 == UnloadEach(s0, DOMAIN s0.chunks)
      unloaded == (DOMAIN st.chunks) \ (DOMAIN s1.chunks)
      marker == MarkerAfterRebuild(last)
      r == updateChunks([ s1 EXCEPT !.chunks = << >> ], marker,
                        needed0, cam, config, seed)
  IN  [ chunks |-> r.chunks, group |-> r.group, gen |-> s0.gen,
        freed |-> r.freed, last |-> r.last, needed |-> r.needed,
        events |-> << Event("initResources", {}) >>
                   \o (IF unloaded = {} THEN << >>
                       ELSE << Event("unload", unloaded) >>)
                   \o << Event("reset", {}) >>
                   \o r.events ]

\* updateConfig(config), for config drawn from inputs
UpdateConfigFrom(inputs) ==
  /\ nConfig < MaxConfigUpdates
  /\ \E config \in inputs :
       /\ currentConfig' = config
       /\ IF NeedsRebuild(currentConfig, config)
          THEN \E r \in { RebuildPath(Engine, lastUpdatePos, neededChunks,
                                      camera, config, noiseSeed) } :
                 /\ chunks' = r.chunks
                 /\ chunkGroup' = r.group
                 /\ resGen' = r.gen
                 /\ disposedRes' = r.freed
                 /\ lastUpdatePos' = r.last
                 /\ neededChunks' = r.needed
                 /\ log' = r.events
                 /\ callCam' = << callCam[2], camera >>
                 /\ uniforms' = SunAfterRefresh(
                                  [ uniforms EXCEPT
                                      !.grass = GrassUniforms(config),
                                      !.foliage = FoliageUniforms(config) ],
                                  r.events, config)
                 /\ fog' = fog
          ELSE /\ log' = << Event("patch", {}) >>
               /\ uniforms' = PatchUniforms(uniforms, currentConfig, config)
               /\ fog' = FogOf(config)
               /\ UNCHANGED << chunks, chunkGroup, lastUpdatePos, neededChunks,
                               callCam, resGen, disposedRes >>
  /\ nConfig' = nConfig + 1
  /\ lastOp' = Op("updateConfig", NoKey, 0)
  /\ preLoad' = NoPreLoad
  /\ UNCHANGED << camera, noiseSeed, nLoad, frameId, scheduled,
                  resizeListener, disposed, nDispose >>
  /\ UNCHANGED pageVars

\* updateConfig(config) called from the page.
UpdateConfig == UpdateConfigFrom(ConfigInputs(currentConfig))

\* The configurations updateConfig is called with around dispose(): the
\* current one again, a cosmetic change and a structural change.
LateConfigInputs(cur) ==
  { cur,
    [cur EXCEPT !.ambientIntensity = 6],
    [cur EXCEPT !.bladeHeight = 36] }

\* A direct call of the public loadChunk(x, z, lodIndex).
LoadChunkCall ==
  /\ nLoad < MaxLoadCalls
  /\ \E key \in CallKeys, lod \in CallLods :
       \E s \in { loadChunk(Engine, key[1], key[2], lod, currentConfig,
                            noiseSeed) } :
           /\ chunks' = s.chunks
           /\ chunkGroup' = s.group
           /\ log' = IF s.chunks = chunks /\ s.group = chunkGroup THEN << >>
                     ELSE << Event("load", {key}) >>
           /\ lastOp' = Op("loadChunk", key, lod)
           /\ preLoad' = [ key |-> key, lod |-> lod,
                           nChunks |-> Cardinality(DOMAIN chunks),
                           nMeshes |-> BagCardinality(chunkGroup), step |-> 0 ]
  /\ nLoad' = nLoad + 1
  /\ UNCHANGED << camera, lastUpdatePos, currentConfig, neededChunks,
                  noiseSeed, callCam, nConfig, resGen, disposedRes, uniforms,
                  fog, frameId, scheduled, resizeListener, disposed, nDispose >>
  /\ UNCHANGED pageVars

\* A direct call of the public unloadChunk(key).
UnloadChunkCall ==
  /\ \E key \in CallKeys :
       \E s \in { unloadChunk(Engine, key) } :
           /\ chunks' = s.chunks
           /\ chunkGroup' = s.group
           /\ disposedRes' = s.freed
           /\ log' = IF key \in DOMAIN chunks THEN << Event("unload", {key}) >>
                     ELSE << >>
           /\ lastOp' = Op("unloadChunk", key, 0)
           /\ preLoad' = IF preLoad.step = 0 /\ preLoad.key = key
                         THEN [ preLoad EXCEPT !.step = 1 ]
                         ELSE NoPreLoad
  /\ UNCHANGED << camera, lastUpdatePos, currentConfig, neededChunks,
                  noiseSeed, callCam, nConfig, nLoad, resGen, uniforms, fog,
                  frameId, scheduled, resizeListener, disposed, nDispose >>
  /\ UNCHANGED pageVars

\* cancelAnimationFrame left out.
CancelNothing(pending, id) == pending

\* if (this.frameId) cancelAnimationFrame(this.frameId)
CancelFrame(pending, id) == IF id # 0 THEN pending \ {id} ELSE pending

\* DisposedByDispose without the blade texture.
DisposedWithoutTexture(gen) ==
  ({ "sunGeometry", "sunMaterial", "pollenGeometry", "pollenMaterial" } \X {0})
    \cup ({ "grassMaterial", "groundMaterial", "treeTrunkGeo",
            "treeFoliageGeo", "treeTrunkMat", "treeFoliageMat" } \X {gen})
    \cup ({ "leafAlbedoMap", "leafAlphaMap", "leafNormalMap" } \X {0})
    \cup ({ LodSlot(i - 1) : i \in DOMAIN LOD_LEVELS } \X {gen})

\* The shared resource objects dispose() calls dispose() on, in its order:
\* sun mesh, pollen, materials, tree resources, leaf maps, LOD geometries,
\* blade texture.
DisposedByDispose(gen) ==
  ({ "sunGeometry", "sunMaterial", "pollenGeometry", "pollenMaterial" } \X {0})
    \cup ({ "grassMaterial", "groundMaterial", "treeTrunkGeo",
            "treeFoliageGeo", "treeTrunkMat", "treeFoliageMat" } \X {gen})
    \cup ({ "leafAlbedoMap", "leafAlphaMap", "leafNormalMap" } \X {0})
    \cup ({ LodSlot(i - 1) : i \in DOMAIN LOD_LEVELS } \X {gen})
    \cup { << "bladeTexture", 0 >> }

\* dispose(): the listener is removed, the frame with id frameId is
\* cancelled, every chunk is unloaded and the store cleared, and dispose()
\* is called on every shared resource the fields refer to.  No field is
\* cleared.
Dispose ==
  /\ nDispose < MaxDisposeCalls
  /\ resizeListener' = FALSE
  /\ scheduled' = CancelFrame(scheduled, frameId)
  /\ \E s \in { UnloadEach(Engine, DOMAIN chunks) } :
       /\ chunks' = << >>
       /\ chunkGroup' = s.group
       /\ disposedRes' = s.freed \cup DisposedByDispose(resGen)
       /\ log' = (IF DOMAIN chunks = {} THEN << >>
                  ELSE << Event("unload", DOMAIN chunks) >>)
                 \o << Event("dispose", {}) >>
  /\ disposed' = TRUE
  /\ nDispose' = nDispose + 1
  /\ lastOp' = Op("dispose", NoKey, 0)
  /\ preLoad' = NoPreLoad
  /\ UNCHANGED << camera, lastUpdatePos, currentConfig, neededChunks,
                  noiseSeed, callCam, nConfig, nLoad, resGen, uniforms, fog,
                  frameId >>
  /\ UNCHANGED pageVars

\* The variables the Joystick and the page's joystick handlers leave alone.
engineVars ==
  << camera, lastUpdatePos, currentConfig, chunks, chunkGroup, neededChunks,
     noiseSeed, callCam, nConfig, nLoad, resGen, disposedRes, uniforms, fog,
     frameId, scheduled, resizeListener, disposed, nDispose, container,
     engineNo >>

\* GrassCanvas.setJoystickInput(x, y), as the page's handlers call it: the
\* call reaches the engine while engineRef holds one.
setJoystickInput(x, y) ==
  IF disposed THEN joystickInput ELSE [ called |-> TRUE, x |-> x, y |-> y ]

\* handleStart and updatePosition for a pointer at offset off: the knob
\* moves and onMove hands the vector to the page, which forwards it.
MoveStick(st, off) ==
  /\ \E u \in { updatePosition(off[1], off[2]) } :
       /\ stick' = [st EXCEPT !.position = u.position]
       /\ joystickInput' = setJoystickInput(u.move[1], u.move[2])
  /\ log' = << Event("onMove", {}) >>

\* handleEnd(): the knob is centred, onStop tells the page, which forwards
\* the input (0, 0), and the touch is forgotten.
handleEnd(st) ==
  /\ stick' = [st EXCEPT !.active = FALSE, !.position = << FZero, FZero >>,
                         !.touchId = NoTouch]
  /\ joystickInput' = setJoystickInput(FZero, FZero)
  /\ log' = << Event("onStop", {}) >>

\* A handler that returns without doing anything.
Ignored ==
  /\ log' = << >>
  /\ UNCHANGED << stick, joystickInput >>

\* onTouchStart: ignored while a touch is tracked.
TouchStart ==
  /\ \E id \in TouchIds, off \in PointerOffsets :
       IF stick.touchId # NoTouch THEN Ignored
       ELSE MoveStick([stick EXCEPT !.touchId = id, !.active = TRUE], off)
  /\ lastOp' = Op("onTouchStart", NoKey, 0)
  /\ preLoad' = NoPreLoad
  /\ UNCHANGED engineVars

\* onTouchMove: only the tracked touch moves the knob.
TouchMove ==
  /\ \E id \in TouchIds, off \in PointerOffsets :
       IF stick.touchId = NoTouch \/ id # stick.touchId THEN Ignored
       ELSE MoveStick(stick, off)
  /\ lastOp' = Op("onTouchMove", NoKey, 0)
  /\ preLoad' = NoPreLoad
  /\ UNCHANGED engineVars

\* onTouchEnd: only the end of the tracked touch releases the stick.
TouchEnd ==
  /\ \E id \in TouchIds :
       IF stick.touchId = NoTouch \/ id # stick.touchId THEN Ignored
       ELSE handleEnd(stick)
  /\ lastOp' = Op("onTouchEnd", NoKey, 0)
  /\ preLoad' = NoPreLoad
  /\ UNCHANGED engineVars

\* onMouseDown: handleStart, and the move and up listeners are put on
\* window.
MouseDown ==
  /\ \E off \in PointerOffsets :
       MoveStick([stick EXCEPT !.active = TRUE, !.listening = TRUE], off)
  /\ lastOp' = Op("onMouseDown", NoKey, 0)
  /\ preLoad' = NoPreLoad
  /\ UNCHANGED engineVars

\* onWindowMouseMove, while the listeners are on window.
MouseMove ==
  /\ stick.listening
  /\ \E off \in PointerOffsets : MoveStick(stick, off)
  /\ lastOp' = Op("onWindowMouseMove", NoKey, 0)
  /\ preLoad' = NoPreLoad
  /\ UNCHANGED engineVars

\* onWindowMouseUp: handleEnd, and the listeners are taken off window.
MouseUp ==
  /\ stick.listening
  /\ handleEnd([stick EXCEPT !.listening = FALSE])
  /\ lastOp' = Op("onWindowMouseUp", NoKey, 0)
  /\ preLoad' = NoPreLoad
  /\ UNCHANGED engineVars

\* Chunk streaming: frame ticks with a moving camera.
Next == Animate(CamPositions)

Spec == Init /\ [][Next]_vars

\* Frame ticks and direct calls of the public chunk operations.
NextCalls == Animate(CallCams) \/ LoadChunkCall \/ UnloadChunkCall

SpecCalls == Init /\ [][NextCalls]_vars

\* Configuration editing: frame ticks and updateConfig calls, explored for
\* one noise table.
InitConfig == Init /\ noiseSeed = 0

NextConfig == Animate(ConfigCams) \/ UpdateConfig

SpecConfig == InitConfig /\ [][NextConfig]_vars

\* The life of the engine up to and after dispose(): frame ticks,
\* updateConfig calls, direct chunk calls and dispose(), for one noise table.
NextDispose ==
  Animate(ConfigCams) \/ UpdateConfigFrom(LateConfigInputs(currentConfig))
    \/ LoadChunkCall \/ UnloadChunkCall \/ Dispose

SpecDispose == InitConfig /\ [][NextDispose]_vars

\* Mounting again on the same container: frame ticks, dispose() and the
\* construction of the next engine, for one noise table.
NextMount == Animate(CamPositions) \/ Dispose \/ Construct

SpecMount == InitConfig /\ [][NextMount]_vars

\* The page in use on a touch screen: frame ticks, and touch and mouse
\* events on the Joystick, for one noise table.
NextJoystick ==
  Animate(ConfigCams) \/ TouchStart \/ TouchMove \/ TouchEnd
    \/ MouseDown \/ MouseMove \/ MouseUp

SpecJoystick == InitConfig /\ [][NextJoystick]_vars

TypeOK ==
  /\ camera \in CamPositions \cup CallCams \cup ConfigCams
  /\ nConfig \in 0..MaxConfigUpdates
  /\ nLoad \in 0..MaxLoadCalls
  /\ nDispose \in 0..MaxDisposeCalls
  /\ engineNo \in 1..MaxEngines
  /\ container \subseteq 1..MaxEngines
  /\ resGen \in 1..(MaxConfigUpdates + 1)
  /\ frameId = 1
  /\ scheduled \subseteq {frameId}

(* ------------------------------ properties ----------------------------- *)
\* The last handler ran a refresh that passed the movement threshold.
Refreshed == \E i \in DOMAIN log : log[i].ev = "refresh"

\* The events l contain no chunk load and no chunk unload.
LoadUnloadFree(l) == \A i \in DOMAIN l : l[i].ev \notin {"load", "unload"}

\* Square of the XZ distance of the centre of cell k from position p.
CellDistSq(k, p) == (k[1] - p[1]) * (k[1] - p[1]) + (k[2] - p[3]) * (k[2] - p[3])

\* dist(a, b) < 5 for positions a, b.
CloserThan5(a, b) ==
  /\ \A i \in 1..3 : a[i] - b[i] < 5 /\ b[i] - a[i] < 5
  /\ (a[1] - b[1]) * (a[1] - b[1]) + (a[2] - b[2]) * (a[2] - b[2])
       + (a[3] - b[3]) * (a[3] - b[3]) < 25

\* C1: after a refresh that passed the movement threshold, the keys of the
\* chunk store are exactly the keys of the required set built for that
\* camera position, and every stored chunk has the level required for it.
C1_StoreIsRequiredSet ==
  Refreshed =>
    /\ DOMAIN chunks = DOMAIN neededChunks
    /\ \A k \in DOMAIN chunks : chunks[k].lodLevel = neededChunks[k]

\* A refresh that unloaded a chunk and loaded it again at another level,
\* with the store having been changed by direct calls before.
C1_Witness ==
  /\ Refreshed
  /\ nLoad > 0
  /\ \E i, j \in DOMAIN log :
       /\ log[i].ev = "unload"
       /\ log[j].ev = "load"
       /\ log[i].keys \cap log[j].keys # {}

\* C2 as stated: a refresh called with the camera less than 5 units from
\* where it was at the previous refresh call loads and unloads nothing.
C2_NoActivityBetweenCalls ==
  [][ (lastOp'.op = "animate" /\ CloserThan5(callCam[2], camera))
        => LoadUnloadFree(log') ]_vars

\* C2 amended: a refresh called with the camera less than 5 units from the
\* position of the last refresh that passed the threshold (lastUpdatePos)
\* loads and unloads nothing and leaves the store, the chunk group and the
\* marker as they were.
C2_NoActivityNearMarker ==
  [][ (lastOp'.op = "animate" /\ CloserThan5(lastUpdatePos, camera))
        => /\ LoadUnloadFree(log')
           /\ chunks' = chunks
           /\ chunkGroup' = chunkGroup
           /\ lastUpdatePos' = lastUpdatePos ]_vars

\* A tick that was throttled although the camera had moved since the last
\* refresh that passed the threshold.
C2_Witness ==
  /\ lastOp.op = "animate"
  /\ \E i \in DOMAIN log : log[i].ev = "throttled"
  /\ callCam[2] # lastUpdatePos

\* C3 as stated: no chunk of a required set is farther from the camera (in
\* the XZ plane) than maxLODDistance (150) x lodBias.
C3_WithinMaxDistance ==
  Refreshed =>
    \A k \in DOMAIN neededChunks :
      100 * CellDistSq(k, lastUpdatePos)
        <= (150 * currentConfig.lodBias) * (150 * currentConfig.lodBias)

\* C3 amended: no chunk of a required set is farther from the camera than
\* 150 x bias, where bias is lodBias, or 1.0 when lodBias is 0.
C3_WithinMaxDistanceOfBias ==
  Refreshed =>
    LET b == IF currentConfig.lodBias = 0 THEN 10 ELSE currentConfig.lodBias
    IN  \A k \in DOMAIN neededChunks :
          100 * CellDistSq(k, lastUpdatePos) <= (150 * b) * (150 * b)

\* A required set built with lodBias 0.5 that reaches the outermost band.
C3_Witness ==
  /\ Refreshed
  /\ currentConfig.lodBias = 5
  /\ \E k \in DOMAIN neededChunks : neededChunks[k] = 2

\* C4: of two chunks of a required set, the nearer one never has the
\* numerically larger LOD level.
C4_Monotonic ==
  Refreshed =>
    LET pairs == { << CellDistSq(k, lastUpdatePos), neededChunks[k] >> :
                     k \in DOMAIN neededChunks }
    IN  \A p, q \in pairs : p[1] < q[1] => p[2] <= q[2]

\* A required set built with lodBias 1.2 whose chunks carry all three levels.
C4_Witness ==
  /\ Refreshed
  /\ currentConfig.lodBias = 12
  /\ \A l \in 0..2 : \E k \in DOMAIN neededChunks : neededChunks[k] = l

\* C5: a scanned cell at distance d gets the lowest level whose threshold
\* (45, 85, 150, times bias) is strictly above d, i.e. as many levels are
\* skipped as there are thresholds <= d, and is excluded when all three are;
\* with bias 1 and the camera above the origin, cell (0,0) gets level 0,
\* cell (60,0) level 1 and cell (180,0) is excluded.
C5_LowestStrictBand ==
  Refreshed =>
    LET b == currentConfig.lodBias
        cells == ScanAxis(RoundToChunk(lastUpdatePos[1]), currentConfig)
                   \X ScanAxis(RoundToChunk(lastUpdatePos[3]), currentConfig)
        Skipped(k) == Cardinality({ t \in {45, 85, 150} :
                        100 * CellDistSq(k, lastUpdatePos) >= (t * b) * (t * b) })
    IN  /\ DOMAIN neededChunks \subseteq cells
        /\ \A k \in cells :
             IF Skipped(k) = 3 THEN k \notin DOMAIN neededChunks
             ELSE k \in DOMAIN neededChunks /\ neededChunks[k] = Skipped(k)
        /\ (b = 10 /\ lastUpdatePos[1] = 0 /\ lastUpdatePos[3] = 0)
             => /\ <<0, 0>> \in DOMAIN neededChunks /\ neededChunks[<<0, 0>>] = 0
                /\ <<60, 0>> \in DOMAIN neededChunks /\ neededChunks[<<60, 0>>] = 1
                /\ <<180, 0>> \notin DOMAIN neededChunks

\* A required set built with cell (0,0) exactly 45 units from the camera:
\* the cell is in the second band.
C5_Witness ==
  /\ Refreshed
  /\ lastUpdatePos = <<0, 15, 45>>
  /\ <<0, 0>> \in DOMAIN neededChunks
  /\ neededChunks[<<0, 0>>] = 1

\* The last handler's events contain one named name.
HasEvent(name) == \E i \in DOMAIN log : log[i].ev = name

\* The fields whose change the spec calls structural.
StructuralFields ==
  { "bladeWidth", "bladeHeight", "bladeCount", "lodBias", "lodDebug",
    "peripheralDensity", "treeDensity", "treeScale" }

\* The step changes a structural field of the configuration.
StructuralChange ==
  \E f \in StructuralFields : currentConfig'[f] # currentConfig[f]

\* The step is an updateConfig call.
ConfigCall == lastOp'.op = "updateConfig" /\ nConfig' = nConfig + 1

\* dist(camera, (99999, 99999, 99999)) < 5
CameraAtSentinel == CloserThan5(camera, <<99999, 99999, 99999>>)

\* C6 as stated: a structural updateConfig unloads every chunk key that was
\* loaded before the call and then loads it again.
C6_EveryKeyReloaded ==
  [][ (ConfigCall /\ StructuralChange)
        => \A k \in DOMAIN chunks :
             \E i, j \in DOMAIN log' :
               /\ i < j
               /\ log'[i].ev = "unload" /\ k \in log'[i].keys
               /\ log'[j].ev = "load" /\ k \in log'[j].keys ]_vars

\* C6 amended: a structural updateConfig unloads every chunk key that was
\* loaded before the call, and then loads exactly the keys required at the
\* current camera position under the new configuration (none when the
\* camera is within 5 units of the sentinel position); so a key loaded
\* before is loaded again if and only if it is still required.
C6_UnloadAllLoadRequired ==
  [][ (ConfigCall /\ StructuralChange)
        => LET required == IF CameraAtSentinel THEN {}
                           ELSE DOMAIN BuildNeeded(camera, currentConfig')
           IN  /\ \A k \in DOMAIN chunks :
                    \E i \in DOMAIN log' :
                      log'[i].ev = "unload" /\ k \in log'[i].keys
               /\ \A k \in required :
                    \E j \in DOMAIN log' :
                      log'[j].ev = "load" /\ k \in log'[j].keys
               /\ \A j \in DOMAIN log' :
                    log'[j].ev = "load" => log'[j].keys \subseteq required
               /\ \A i, j \in DOMAIN log' :
                    (log'[i].ev = "unload" /\ log'[j].ev = "load") => i < j
               /\ DOMAIN chunks' = required ]_vars

\* A structural updateConfig that unloaded keys it did not load again and
\* loaded keys (lodBias 0.5 moves the scan off the previous grid).
C6_Witness ==
  /\ lastOp.op = "updateConfig"
  /\ \E i, j \in DOMAIN log :
       /\ i < j
       /\ log[i].ev = "unload"
       /\ log[j].ev = "load"
       /\ log[i].keys \ log[j].keys # {}
       /\ log[j].keys # {}

\* C7: an updateConfig in which no structural field differs loads and
\* unloads no chunk, leaves the store, the chunk group and the marker
\* unchanged, and does not rebuild the shared geometry and materials.
C7_CosmeticTouchesNothing ==
  [][ (ConfigCall /\ ~ StructuralChange)
        => /\ LoadUnloadFree(log')
           /\ ~ HasEvent("initResources")'
           /\ chunks' = chunks
           /\ chunkGroup' = chunkGroup
           /\ lastUpdatePos' = lastUpdatePos ]_vars

\* An updateConfig that changed a cosmetic field and patched.
C7_Witness ==
  /\ lastOp.op = "updateConfig"
  /\ log = << Event("patch", {}) >>
  /\ \E f \in ConfigFields \ StructuralFields :
       currentConfig[f] # InitialConfig[f]

\* C8: updateConfig takes the rebuild path if and only if a structural
\* field differs, and the patch path otherwise.
C8_RebuildIffStructural ==
  [][ ConfigCall
        => /\ HasEvent("initResources")' <=> StructuralChange
           /\ HasEvent("patch")' <=> ~ StructuralChange ]_vars

\* A rebuild caused by a change of treeScale alone.
C8_Witness ==
  /\ lastOp.op = "updateConfig"
  /\ HasEvent("initResources")
  /\ currentConfig.treeScale # InitialConfig.treeScale
  /\ \A f \in ConfigFields \ {"treeScale"} : currentConfig[f] = InitialConfig[f]

\* C9 as stated: after a structural rebuild the marker has been reset and
\* the chunk set has been re-evaluated, whatever the camera position.
C9_ReevaluatedAnywhere ==
  (lastOp.op = "updateConfig" /\ HasEvent("initResources"))
    => /\ HasEvent("reset")
       /\ Refreshed
       /\ lastUpdatePos = camera

\* C9 amended: after a structural rebuild with the camera at least 5 units
\* away from (99999, 99999, 99999), the marker has been reset and the chunk
\* set has been re-evaluated at the camera position before updateConfig
\* returns, also when the camera has not moved since the previous refresh.
C9_ReevaluatedAwayFromSentinel ==
  (lastOp.op = "updateConfig" /\ HasEvent("initResources") /\ ~ CameraAtSentinel)
    => /\ HasEvent("reset")
       /\ Refreshed
       /\ lastUpdatePos = camera
       /\ DOMAIN chunks = DOMAIN neededChunks

\* A structural rebuild with the camera where the previous refresh call
\* found it, away from the sentinel.
C9_Witness ==
  /\ lastOp.op = "updateConfig"
  /\ HasEvent("initResources")
  /\ Refreshed
  /\ callCam[1] = callCam[2]
  /\ ~ CameraAtSentinel

\* C10 as stated: loadChunk with a LOD index of the table followed
\* immediately by unloadChunk of the same key leaves as many tracked chunks
\* and as many meshes in the chunk group as before the load.
C10_LoadUnloadRestoresCounts ==
  (preLoad.step = 1 /\ preLoad.lod \in 0..2)
    => /\ Cardinality(DOMAIN chunks) = preLoad.nChunks
       /\ BagCardinality(chunkGroup) = preLoad.nMeshes

\* The shared resources the engine holds: the LOD template geometries of
\* lodGeometries, the grass, ground and tree materials and the tree
\* geometries of the current generation.
SharedHeld ==
  { "lodGeometry0", "lodGeometry1", "lodGeometry2", "grassMaterial",
    "groundMaterial", "treeTrunkGeo", "treeFoliageGeo", "treeTrunkMat",
    "treeFoliageMat" } \X {resGen}

\* C11 as stated: unloadChunk releases chunk-owned resources only; whatever
\* the blade count of the chunks unloaded, no shared resource the engine
\* holds (materials, tree geometries, LOD template geometries) is disposed
\* while the engine is in use.
C11_UnloadKeepsShared ==
  (~ disposed) => SharedHeld \cap disposedRes = {}

\* The blade count loadChunk computes for a chunk at LOD level l under the
\* configuration cfg (bladeCount in thousands over 40000, chunk area 900,
\* densities 1.0, 0.4 and 0.1, peripheralDensity in tenths).
ComputedBlades(cfg, l) ==
  LET density == IF l = 0 THEN 10 ELSE IF l = 1 THEN 4 ELSE 1
      mult == IF l = 0 \/ cfg.peripheralDensity = Undef THEN 10
              ELSE cfg.peripheralDensity
  IN  (cfg.bladeCount * 225 * density * mult) \div 1000

\* The keys of the events named name of the last handler.
EventKeys(name) == UNION { log[i].keys : i \in { j \in DOMAIN log : log[j].ev = name } }

\* C12: a chunk whose computed blade count is zero or negative is recorded
\* under its key with a grass batch of zero instances and no grass mesh in
\* the chunk group, every required key with such a count is in the store
\* after a refresh, and a step that unloads such a chunk removes its key
\* from the store unless the same step loads the key again.
C12_ZeroBladeChunkTracked ==
  [][ /\ \A k \in DOMAIN chunks' :
           ComputedBlades(currentConfig', chunks'[k].lodLevel) <= 0
             => /\ chunks'[k].blades = 0
                /\ ~ BagIn(<<k, "grass">>, chunkGroup')
                /\ BagIn(<<k, "ground">>, chunkGroup')
      /\ Refreshed' => DOMAIN chunks' = DOMAIN neededChunks'
      /\ \A k \in DOMAIN chunks :
           (chunks[k].blades = 0 /\ k \in EventKeys("unload")')
             => (k \notin DOMAIN chunks' \/ k \in EventKeys("load")') ]_vars

\* A frame tick unloaded the zero-instance chunks around the start position
\* and loaded zero-instance chunks around the new camera position, under a
\* negative bladeCount.
C12_Witness ==
  /\ lastOp.op = "animate"
  /\ currentConfig.bladeCount < 0
  /\ EventKeys("unload") # {}
  /\ EventKeys("load") # {}
  /\ \A k \in DOMAIN chunks : chunks[k].blades = 0
  /\ chunks # << >>

\* C13: a chunk holds a tree batch only if it was loaded with
\* treeDensity > 0.01 at LOD level 0 or 1; with treeDensity 0 or undefined
\* no chunk holds one; and the trunk and foliage instance counts of a tree
\* batch both equal the number of accepted placements, which is at least 1.
C13_TreesOnlyNearWithDensity ==
  \A k \in DOMAIN chunks :
    LET c == chunks[k]
        batch == BagIn(<<k, "trunk">>, chunkGroup)
                   \/ BagIn(<<k, "foliage">>, chunkGroup)
                   \/ c.trunkInstances > 0 \/ c.foliageInstances > 0
    IN  /\ batch => /\ currentConfig.treeDensity # Undef
                    /\ 10 * currentConfig.treeDensity > 1
                    /\ c.lodLevel <= 1
                    /\ c.trees >= 1
                    /\ c.trunkInstances = c.trees
                    /\ c.foliageInstances = c.trees
        /\ currentConfig.treeDensity \in {0, Undef} => ~ batch

\* After an updateConfig call that set treeDensity to 0 the store holds
\* chunks at LOD level 0 or 1, none with trees.
C13_Witness ==
  /\ lastOp.op = "updateConfig"
  /\ currentConfig.treeDensity = 0
  /\ \E k \in DOMAIN chunks : chunks[k].lodLevel <= 1

\* C14: once dispose() has been called no frame callback is scheduled, in
\* that state and in every later one, whatever is called afterwards,
\* dispose() a second time included.
C14_NoFrameAfterDispose ==
  disposed => scheduled = {}

\* dispose() has returned for the second time.
C14_Witness ==
  /\ lastOp.op = "dispose"
  /\ nDispose = 2
  /\ scheduled = {}

\* C15: when dispose() returns the chunk store is empty, every chunk that
\* was loaded has been unloaded, every shared resource the engine holds (LOD
\* geometries, grass, ground and tree materials, tree geometries, blade and
\* leaf textures) is disposed and the resize listener is detached.
C15_DisposeReleasesAll ==
  [][ lastOp'.op = "dispose"
        => /\ chunks' = << >>
           /\ DOMAIN chunks \subseteq EventKeys("unload")'
           /\ SharedHeld' \subseteq disposedRes'
           /\ ({ "bladeTexture", "leafAlbedoMap", "leafAlphaMap",
                 "leafNormalMap" } \X {0}) \subseteq disposedRes'
           /\ ~ resizeListener' ]_vars

\* dispose() has returned for the first time, after a structural
\* updateConfig, and has unloaded chunks.
C15_Witness ==
  /\ lastOp.op = "dispose"
  /\ nDispose = 1
  /\ resGen = 2
  /\ EventKeys("unload") # {}
  /\ chunks = << >>

\* C16 as stated: on a disposed engine updateConfig, loadChunk, unloadChunk
\* and a late frame tick are no-ops: no step taken after dispose() builds a
\* shared geometry or material, loads a chunk or schedules a frame.
C16_NoOpAfterDispose ==
  [][ disposed => /\ resGen' = resGen
                  /\ DOMAIN chunks' \subseteq DOMAIN chunks
                  /\ scheduled' \subseteq scheduled ]_vars

\* C17 as stated: after every updateConfig(c) every configuration-derived
\* uniform of the grass, tree foliage and pollen materials equals the field
\* of c it derives from.
C17_UniformsFollowConfig ==
  lastOp.op = "updateConfig"
    => LET c == currentConfig
       IN  /\ uniforms.grass.uWindSpeed = c.windSpeed
           /\ uniforms.grass.uWindStrength = c.windStrength
           /\ uniforms.grass.uBaseColor = c.baseColor
           /\ uniforms.grass.uTipColor = c.tipColor
           /\ uniforms.grass.uSunColor = c.sunColor
           /\ uniforms.grass.uSunIntensity = c.sunIntensity
           /\ uniforms.grass.uAmbientIntensity = c.ambientIntensity
           /\ uniforms.grass.fogColor = c.fogColor
           /\ uniforms.grass.fogDensity = c.fogDensity
           /\ uniforms.foliage.uWindSpeed = c.windSpeed
           /\ uniforms.foliage.uColor = c.treeColor
           /\ uniforms.foliage.uSunColor = c.sunColor
           /\ uniforms.foliage.uSunIntensity = c.sunIntensity
           /\ uniforms.foliage.uAmbientIntensity = c.ambientIntensity
           /\ uniforms.foliage.fogColor = c.fogColor
           /\ uniforms.foliage.fogDensity = c.fogDensity
           /\ uniforms.pollen.uWindSpeed = c.windSpeed
           /\ uniforms.pollen.uSunColor = c.sunColor
           /\ uniforms.pollen.uSunIntensity = c.sunIntensity
           /\ uniforms.pollen.fogColor = c.fogColor
           /\ uniforms.pollen.fogDensity = c.fogDensity

\* C18 as stated: every key a refresh places in the store is a whole
\* multiple of the chunk size 30 in both axes, for every camera position and
\* every lodBias.
C18_KeysOnChunkGrid ==
  \A k \in DOMAIN chunks : k[1] % 30 = 0 /\ k[2] % 30 = 0

\* C19 as stated: after every updateConfig(c) the scene fog colour and
\* density equal c.fogColor and c.fogDensity.
C19_SceneFogFollowsConfig ==
  lastOp.op = "updateConfig"
    => fog.color = currentConfig.fogColor
         /\ fog.density = currentConfig.fogDensity

\* The shared resource objects that were built and are not disposed.
LiveShared ==
  ({ "lodGeometry0", "lodGeometry1", "lodGeometry2", "grassMaterial",
     "groundMaterial", "treeTrunkGeo", "treeFoliageGeo", "treeTrunkMat",
     "treeFoliageMat" } \X (1..resGen)) \ disposedRes

\* C20: every shared resource of an earlier generation is disposed, so the
\* live shared resources are never more than the ones the engine holds;
\* and when a structural updateConfig returns, after any number of them,
\* they are exactly the ones held, as many as after construction: one blade
\* geometry per LOD level, one grass and one ground material, one trunk and
\* one foliage geometry and material.
C20_SharedResourcesDoNotGrow ==
  /\ LiveShared \subseteq SharedHeld
  /\ (lastOp.op = "updateConfig" /\ HasEvent("initResources"))
       => /\ LiveShared = SharedHeld
          /\ Cardinality(LiveShared) = Len(LOD_LEVELS) + 6

\* A structural updateConfig has replaced the shared resources.
C20_Witness ==
  /\ lastOp.op = "updateConfig"
  /\ HasEvent("initResources")
  /\ resGen >= 2

\* The last handler's events unload key k and, later, load it.
UnloadedThenLoaded(k, l) ==
  \E i, j \in DOMAIN l :
    /\ i < j
    /\ l[i].ev = "unload" /\ k \in l[i].keys
    /\ l[j].ev = "load" /\ k \in l[j].keys

\* C21 as stated: the LOD level recorded for a key never changes between a
\* load of the key and its next unload: a step that leaves a key in the
\* store with another level has unloaded the key and then loaded it at the
\* new level.
C21_LevelChangeIsReload ==
  [][ \A k \in (DOMAIN chunks) \cap (DOMAIN chunks') :
        chunks'[k].lodLevel # chunks[k].lodLevel
          => UnloadedThenLoaded(k, log') ]_vars

\* C22: a chunk at LOD level i whose computed count
\* floor((bladeCount / 40000) * 900 * d) is positive holds exactly that many
\* grass instances, d being the LOD density for i = 0 and the LOD density
\* times peripheralDensity (1 when absent) for i >= 1; the count of a chunk
\* at level 0 does not depend on peripheralDensity; and the offset, scale
\* and rotation arrays hold 3, 1 and 1 entries per instance.
C22_BladeCountFormula ==
  \A k \in DOMAIN chunks :
    LET c == chunks[k]
        n == ComputedBlades(currentConfig, c.lodLevel)
    IN  n > 0 => /\ c.blades = n
                 /\ c.lodLevel = 0
                      => c.blades = (currentConfig.bladeCount * 22500) \div 1000
                 /\ c.offsets = 3 * c.blades
                 /\ c.scales = c.blades
                 /\ c.rotations = c.blades

\* Chunks with blades at level 0 and at a farther level, loaded under a
\* peripheralDensity of 0.1.
C22_Witness ==
  /\ currentConfig.peripheralDensity = 1
  /\ \E k \in DOMAIN chunks : chunks[k].lodLevel = 0 /\ chunks[k].blades > 0
  /\ \E k \in DOMAIN chunks : chunks[k].lodLevel = 2 /\ chunks[k].blades > 0

C24_OneCanvasPerContainer ==
  /\ (~ disposed) => container = {engineNo}
  /\ disposed => container = {}

ExceedsOne(a) ==
  /\ a.m # << >>
  /\ \/ a.e + (SignificandBits - 1) > 0
     \/ /\ a.e + (SignificandBits - 1) = 0
        /\ a.m # ShiftLeft(<< 1 >>, SignificandBits - 1)

\* The step is a release of the stick: the mouse button goes up, or the
\* tracked touch ends.
StickReleased ==
  \/ lastOp'.op = "onWindowMouseUp"
  \/ lastOp'.op = "onTouchEnd" /\ stick.touchId # NoTouch
       /\ stick'.touchId = NoTouch

\* The engine was handed the joystick input (0, 0).
InputIsZero(input) == input = [ called |-> TRUE, x |-> FZero, y |-> FZero ]

\* C26: every vector the Joystick hands to onMove, which the page forwards
\* to the engine, has both components in [-1, 1] (as any vector of
\* magnitude at most 1 has), wherever the pointer is; and every release
\* (handleEnd) emits onStop, which the page forwards as the input (0, 0).
C26_MoveInUnitDisc ==
  [][ /\ (\E i \in DOMAIN log' : log'[i].ev = "onMove")
           => /\ joystickInput'.called
              /\ ~ ExceedsOne(joystickInput'.x)
              /\ ~ ExceedsOne(joystickInput'.y)
      /\ StickReleased
           => /\ log' = << Event("onStop", {}) >>
              /\ InputIsZero(joystickInput') ]_vars

\* C26, the part that holds: every release emits onStop and the engine is
\* handed the input (0, 0), and nothing but a release emits onStop.
C26_ReleaseStops ==
  [][ /\ StickReleased
           => /\ log' = << Event("onStop", {}) >>
              /\ InputIsZero(joystickInput')
              /\ ~ stick'.active
      /\ (\E i \in DOMAIN log' : log'[i].ev = "onStop") => StickReleased ]_vars

\* C27: after any sequence of loadChunk, unloadChunk, updateConfig and
\* frame ticks, every mesh in the chunk group is a mesh of a chunk of the
\* store (no orphan mesh), loadChunk on an already loaded key included.
C27_NoOrphanMesh ==
  \A m \in BagToSet(chunkGroup) :
    /\ m[1] \in DOMAIN chunks
    /\ m \in MeshSet(m[1], chunks[m[1]])
    /\ CopiesIn(m, chunkGroup) = 1

\* The grid cells whose 30 x 30 footprint (borders included) contains the
\* XZ position of cam.
CameraCells(cam) ==
  { k \in { << RoundToChunk(cam[1]) + d[1], RoundToChunk(cam[3]) + d[2] >> :
              d \in {-CHUNK_SIZE, 0, CHUNK_SIZE} \X {-CHUNK_SIZE, 0, CHUNK_SIZE} } :
      /\ 2 * Abs(k[1] - cam[1]) <= CHUNK_SIZE
      /\ 2 * Abs(k[2] - cam[3]) <= CHUNK_SIZE }

\* C28: with lodBias = 1, right after the chunk refresh of every frame
\* tick, throttled or not, every cell whose footprint contains the XZ
\* position the camera had at that refresh is loaded at LOD 0.
C28_CameraCellNearest ==
  (lastOp.op \in {"constructor", "animate"} /\ currentConfig.lodBias = 10)
    => \A k \in CameraCells(callCam[2]) :
         k \in DOMAIN chunks /\ chunks[k].lodLevel = 0

\* A throttled tick with the camera in (or on the border of) a cell other
\* than the one the last triggered refresh was centred on.
C28_Witness ==
  /\ lastOp.op = "animate"
  /\ currentConfig.lodBias = 10
  /\ \E i \in DOMAIN log : log[i].ev = "throttled"
  /\ \E k \in CameraCells(callCam[2]) :
       k # << RoundToChunk(lastUpdatePos[1]), RoundToChunk(lastUpdatePos[3]) >>

\* C29: at the moment each frame is rendered, the last-refresh position is
\* less than the movement threshold (5 units) away from the camera position
\* used for that render (the position controls.update() has left the camera
\* at when the tick returns).
C29_RenderWithinThreshold ==
  lastOp.op = "animate" => CloserThan5(lastUpdatePos, camera)

\* What does hold at a tick: when the chunk refresh returns, the marker is
\* less than 5 units from the camera position the refresh was called with.
C29_RefreshWithinThreshold ==
  lastOp.op = "animate" => CloserThan5(lastUpdatePos, callCam[2])

\* C30: every tree instance placed by loadChunk(x, z, lod) has its XZ
\* position inside the footprint [x - 15, x + 15] x [z - 15, z + 15] of its
\* chunk (tree positions are in hundredths of a unit).
C30_TreesInsideFootprint ==
  \A k \in DOMAIN chunks : \A t \in chunks[k].treeSet :
    /\ 100 * (2 * k[1] - CHUNK_SIZE) <= 2 * t.wx
    /\ 2 * t.wx <= 100 * (2 * k[1] + CHUNK_SIZE)
    /\ 100 * (2 * k[2] - CHUNK_SIZE) <= 2 * t.wz
    /\ 2 * t.wz <= 100 * (2 * k[2] + CHUNK_SIZE)

====
